---- MODULE Spec2Model ----
(***************************************************************************)
(* serde-transcode: a Transcoder drives a serde Deserializer (the source)  *)
(* once and forwards every value it reports to a serde Serializer (the     *)
(* sink).  The recursion of src/src/lib.rs is modelled by an explicit call *)
(* stack: the frames of the crate (transcode, Transcoder::serialize, the   *)
(* Visitor methods, the with_transcoder! bodies of the seeds) alternate    *)
(* with frames of the source (deserialize_any, next_*_seed) and of the     *)
(* sink (the payload-carrying serialize_* calls).  The source and the sink *)
(* are external: the source holds a document and may fail, the sink builds *)
(* a value and may fail, mask a failure, skip a payload or drive it twice. *)
(***************************************************************************)
EXTENDS Integers, Sequences, FiniteSets, TLC

VARIABLES
    doc,      \* the document held by the top-level source
    stack,    \* the call stack, innermost frame last
    ret,      \* the value the frame popped last has returned to its caller
    result,   \* what transcode has returned to its caller
    ctxs,     \* the sink's composite contexts (S::SerializeSeq / S::SerializeMap)
    trace,    \* history: the sink's calls and their returns, in order
    pulls,    \* history: the operations invoked on the source, in order
    faults,   \* history: what the source and the sink did beyond the plain protocol
    trs,      \* the Transcoder instances constructed so far
    loops,    \* history: per composite context, how its visit_seq / visit_map loop went
    firstErr, \* history: the first error a source operation or a sink call returned
    srcErr,   \* history: the first error a source operation returned
    failedAt  \* history: the source operations that failed, and on which sub-source

vars ==
    <<doc, stack, ret, result, ctxs, trace, pulls, faults, trs, loops, firstErr, srcErr,
      failedAt>>

(***************************************************************************)
(* Bounds of the model.                                                    *)
(***************************************************************************)
\* longest generated sequence / keyed collection
MaxLen == 2
\* most deviations (failures, masked errors, skipped or repeated drives) in one run
MaxFaults == 2

(***************************************************************************)
(* Values.  A value is a record [k, v, c, hint, name]: k its shape, v its  *)
(* primitive payload as a tuple of integers (16-bit limbs of the bit       *)
(* pattern, most significant first; code points for text), c its children, *)
(* hint the size hint of a composite (-1 for None), name a wrapper's name. *)
(***************************************************************************)
NoHint == 0 - 1

Val(k, v, c, hint, name) == [k |-> k, v |-> v, c |-> c, hint |-> hint, name |-> name]

Prim(k, v) == Val(k, v, <<>>, NoHint, "")

NoVal == Val("-", <<>>, <<>>, NoHint, "")

\* what a sink that did not obtain a payload's value puts in its place
Hole == Val("hole", <<>>, <<>>, NoHint, "")

DSome(d) == Val("some", <<>>, <<d>>, NoHint, "")

DNewtype(d) == Val("newtype", <<>>, <<d>>, NoHint, "")

DSeq(hint, elems) == Val("seq", <<>>, elems, hint, "")

\* the children of a map are its keys and values, alternating
DMap(hint, kvs) == Val("map", <<>>, kvs, hint, "")

(***************************************************************************)
(* Errors.  D::Error and S::Error are the formats' own types: an error has *)
(* a domain, a rendered text and structured detail (code) that the text    *)
(* does not carry.                                                         *)
(***************************************************************************)
Err(dom, msg, code) == [dom |-> dom, msg |-> msg, code |-> code]

NoErr == Err("-", "", 0)

\* the n-th failure of the source (de::Error of the format)
DeErr(n) == Err("De", "invalid input", n)

\* the n-th failure of the sink (ser::Error of the format)
SerErr(n) == Err("Ser", "cannot encode", n)

\* fmt::Display of an error: its rendered text
to_string(e) == e.msg

\* <S::Error as ser::Error>::custom(msg): a sink error made of a text alone
Custom(msg) == Err("Ser", msg, 0)

(***************************************************************************)
(* Results.  st is "Ok", "OkErr" (Ok(Err(ser_err)) of a visitor or seed),  *)
(* "Err", or "None" (Ok(None) of next_element_seed / next_key_seed).       *)
(***************************************************************************)
Res(st, val, err) == [st |-> st, val |-> val, err |-> err]

NoRet == Res("-", NoVal, NoErr)

ROk(v) == Res("Ok", v, NoErr)

ROkErr(e) == Res("OkErr", NoVal, e)

RErr(e) == Res("Err", NoVal, e)

RNone == Res("None", NoVal, NoErr)

(***************************************************************************)
(* The documents the source may hold.                                      *)
(***************************************************************************)
\* the primitive shapes a source reports, each with its boundary values
\* (src/src/test.rs): 16-bit limbs of the two's complement / IEEE bit pattern
PrimDocs ==
    { Prim("bool", <<0>>), Prim("bool", <<1>>),
      Prim("i8", <<128>>), Prim("i8", <<0>>), Prim("i8", <<127>>),
      Prim("i16", <<32768>>), Prim("i16", <<0>>), Prim("i16", <<32767>>),
      Prim("i32", <<32768, 0>>), Prim("i32", <<0, 0>>), Prim("i32", <<32767, 65535>>),
      Prim("i64", <<32768, 0, 0, 0>>), Prim("i64", <<0, 0, 0, 0>>),
      Prim("i64", <<32767, 65535, 65535, 65535>>),
      Prim("u8", <<0>>), Prim("u8", <<255>>),
      Prim("u16", <<0>>), Prim("u16", <<65535>>),
      Prim("u32", <<0, 0>>), Prim("u32", <<65535, 65535>>),
      Prim("u64", <<0, 0, 0, 0>>), Prim("u64", <<0, 1, 0, 0>>),
      Prim("u64", <<65535, 65535, 65535, 65535>>),
      Prim("i128", <<32768, 0, 0, 0, 0, 0, 0, 0>>),
      Prim("i128", <<32767, 65535, 65535, 65535, 65535, 65535, 65535, 65535>>),
      Prim("u128", <<0, 0, 0, 0, 0, 0, 0, 0>>),
      Prim("u128", <<65535, 65535, 65535, 65535, 65535, 65535, 65535, 65535>>),
      Prim("f32", <<16294, 26214>>), Prim("f32", <<53269, 761>>), Prim("f32", <<0, 0>>),
      Prim("f64", <<16372, 52428, 52428, 52429>>), Prim("f64", <<49666, 41055, 8192, 0>>),
      Prim("f64", <<0, 0, 0, 0>>),
      Prim("char", <<97>>), Prim("char", <<0>>),
      Prim("str", <<104, 105>>), Prim("str", <<>>),
      Prim("string", <<104, 105>>), Prim("string", <<>>),
      Prim("bytes", <<1, 255>>), Prim("bytes", <<>>),
      Prim("byte_buf", <<1, 255>>), Prim("byte_buf", <<>>),
      Prim("unit", <<>>) }

DNone == Prim("none", <<>>)

\* the zero or empty value of each primitive kind
ZeroDocs ==
    { d \in PrimDocs : \A j \in 1..Len(d.v) : d.v[j] = 0 }

I32(n) == Prim("i32", <<0, n>>)

I64(n) == Prim("i64", <<0, 0, 0, n>>)

Str(cs) == Prim("string", cs)

Hello == Str(<<104, 101, 108, 108, 111>>)

Goodbye == Str(<<103, 111, 111, 100, 98, 121, 101>>)

\* the elements generated sequences are made of: distinct, of mixed widths
Elems == <<I32(1), I64(2)>>

\* the keys generated keyed collections are made of
Keys == <<Hello, Goodbye, Str(<<>>)>>

\* the values generated keyed collections are made of
MapVals == { I32(1), DSeq(0, <<>>) }

\* all tuples over S of length n
RECURSIVE TuplesOf(_, _)
TuplesOf(S, n) ==
    IF n = 0 THEN { <<>> }
    ELSE { Append(t, x) : t \in TuplesOf(S, n - 1), x \in S }

\* the size hints a source may report for n elements: none, zero, exact
Hints(n) == { NoHint, 0, n }

\* sequences of at most MaxLen elements, in every order
SeqDocs ==
    UNION { { DSeq(h, t) : h \in Hints(n),
                           t \in TuplesOf({ Elems[j] : j \in 1..Len(Elems) }, n) }
            : n \in 0..MaxLen }

\* keys k1..kn paired with the values vs
Pairs(vs) == [ j \in 1..(2 * Len(vs)) |->
                 IF j % 2 = 1 THEN Keys[(j + 1) \div 2] ELSE vs[j \div 2] ]

\* keyed collections of at most MaxLen pairs
MapDocs ==
    UNION { { DMap(n, Pairs(t)) : t \in TuplesOf(MapVals, n) } : n \in 0..MaxLen }

\* vec![0, 1, 2, 3] and the collection of the map test (src/src/test.rs)
Seq4 == DSeq(4, <<I32(0), I32(1), I32(2), I32(3)>>)

HelloGoodbye ==
    DMap(2, <<Hello, DSeq(2, <<I32(1), I32(2)>>), Goodbye, DSeq(0, <<>>)>>)

NestedDocs ==
    { Seq4, HelloGoodbye,
      DSeq(NoHint, <<DSeq(1, <<I32(1)>>), DSeq(0, <<>>)>>),
      DSeq(1, <<DMap(1, <<Hello, I32(1)>>)>>),
      DSeq(3, <<Prim("u8", <<3>>), I64(2), Prim("i16", <<0>>)>>),
      DMap(NoHint, <<Hello, DNone, Goodbye, DSome(Str(<<>>))>>),
      DSome(DSeq(1, <<I32(1)>>)), DSome(DSome(I32(0))), DSome(DNone),
      DNewtype(I32(100)), DNewtype(DSeq(1, <<I32(1)>>)), DSome(DNewtype(I32(0))) }

Docs ==
    PrimDocs \cup { DNone } \cup { DSome(d) : d \in ZeroDocs } \cup SeqDocs
        \cup MapDocs \cup NestedDocs

(***************************************************************************)
(* Frames of the call stack.  fn names the function, pc its position, d    *)
(* the sub-document its source stands at and path that sub-document's      *)
(* place in doc, i the loop position, s the composite context, op the sink *)
(* call being made, tr the Transcoder the frame owns or drives.            *)
(***************************************************************************)
Frame(fn, pc, d, path, i, s, op, tr) ==
    [fn |-> fn, pc |-> pc, d |-> d, path |-> path, i |-> i, s |-> s, op |-> op, tr |-> tr]

Top == stack[Len(stack)]

Popped == SubSeq(stack, 1, Len(stack) - 1)

\* the stack with its top frame replaced by f
WithTop(f) == [stack EXCEPT ![Len(stack)] = f]

Running == result.st = "-" /\ stack # <<>>

\* the callee of the top frame has returned
Returned == Running /\ Top.pc = "wait" /\ ret # NoRet

(***************************************************************************)
(* History.                                                                *)
(***************************************************************************)
CanFault == Len(faults) < MaxFaults

\* the number the next failure carries
NextCode == Len(faults) + 1

Ev(ev, op, arg, s, tr, ok) ==
    [ev |-> ev, op |-> op, arg |-> arg, s |-> s, tr |-> tr, ok |-> ok]

Call(op, arg, s, tr) == Ev("call", op, arg, s, tr, TRUE)

Return(op, s, tr, r) == Ev("ret", op, NoVal, s, tr, r.st = "Ok")

\* a source operation on the sub-source at path, for context s, made after
\* the first `at` events of the trace
Pull(op, path, s, at) == [op |-> op, path |-> path, s |-> s, at |-> at]

\* a loop of visit_seq / visit_map over the composite at path: fwd pulls have
\* come back with Some(Ok(..)); out is "open", "fail", "return" or "end"
Loop(path, fwd, out) == [path |-> path, fwd |-> fwd, out |-> out]

\* an error e returned by a source operation or a sink call is noted
Noted(e) ==
    /\ firstErr' = IF firstErr = NoErr THEN e ELSE firstErr
    /\ srcErr' = IF srcErr = NoErr /\ e.dom = "De" THEN e ELSE srcErr
    /\ failedAt' = IF e.dom = "De"
                   THEN Append(failedAt, [fn |-> Top.fn, path |-> Top.path])
                   ELSE failedAt

(***************************************************************************)
(* Transcoder (lib.rs 103-132): de and de_err are its two cells; src and   *)
(* path (history) say which sub-source it was constructed over, drives     *)
(* (history) how often serialize was invoked on it.                        *)
(***************************************************************************)
\* mutant: the Transcoder is constructed with an empty cell
Transcoder_new_Empty(d, path) ==
    [some |-> FALSE, de |-> NoVal, de_err |-> NoErr, src |-> d, path |-> path, drives |-> 0]

\* Transcoder::new
Transcoder_new(d, path) ==
    [some |-> TRUE, de |-> d, de_err |-> NoErr, src |-> d, path |-> path, drives |-> 0]

\* mutant: the cell is read and left full
TakeDe_LeavesCellFull(t) == t

\* self.de.borrow_mut().take(): the cell is left empty
TakeDe(t) == [t EXCEPT !.some = FALSE, !.de = NoVal]

\* mutant: the stored error is read and left in place
take_last_deserializer_error_Keeps(t) == t

\* take_last_deserializer_error: the stored error is removed
take_last_deserializer_error(t) == [t EXCEPT !.de_err = NoErr]

\* mutant: the stored source error is not looked at
TranscodeResult_IgnoresSourceError(de_err, r) ==
    IF r.st = "Ok" THEN Res("Ok", r.val, NoErr)
    ELSE Res("SerializerError", NoVal, r.err)

\* the tail of transcode: the source's error wins, else the sink's result
TranscodeResult(de_err, r) ==
    IF de_err # NoErr THEN Res("DeserializerError", NoVal, de_err)
    ELSE IF r.st = "Ok" THEN Res("Ok", r.val, NoErr)
    ELSE Res("SerializerError", NoVal, r.err)

\* mutant: the custom error is built from a text of the crate's own
SerializeResult_FixedMessage(r) ==
    CASE r.st = "Ok" -> ROk(r.val)
      [] r.st = "OkErr" -> RErr(r.err)
      [] OTHER -> RErr(Custom("deserializer error"))

\* the match of Transcoder::serialize on deserialize_any's result
SerializeResult(r) ==
    CASE r.st = "Ok" -> ROk(r.val)
      [] r.st = "OkErr" -> RErr(r.err)
      [] OTHER -> RErr(Custom(to_string(r.err)))

\* the error Transcoder::serialize stores in de_err
SerializeStored(r, old) == IF r.st = "Err" THEN r.err ELSE old

\* try_serializer!: Ok(v) becomes Ok(Ok(v)); an error returns Ok(Err(ser_err))
TrySerializer(r) == IF r.st = "Ok" THEN ROk(r.val) ELSE ROkErr(r.err)

\* mutant: the sink call's result is matched first, the stored error after
WithTranscoderResult_ResultFirst(de_err, r) ==
    IF r.st = "Ok" THEN ROk(r.val)
    ELSE IF de_err # NoErr THEN RErr(de_err)
    ELSE ROkErr(r.err)

\* the tail of with_transcoder!
WithTranscoderResult(de_err, r) ==
    IF de_err # NoErr THEN RErr(de_err)
    ELSE IF r.st = "Ok" THEN ROk(r.val)
    ELSE ROkErr(r.err)

(***************************************************************************)
(* Visitor: the sink call each shape is forwarded to.                      *)
(***************************************************************************)
PrimShapes ==
    { "bool", "i8", "i16", "i32", "i64", "u8", "u16", "u32", "u64", "i128", "u128",
      "f32", "f64", "char", "str", "string", "unit", "none", "bytes", "byte_buf" }

\* visit_bool .. visit_none, visit_bytes, visit_byte_buf
VisitOp(k) ==
    CASE k = "bool" -> "serialize_bool"
      [] k = "i8" -> "serialize_i8"
      [] k = "i16" -> "serialize_i16"
      [] k = "i32" -> "serialize_i32"
      [] k = "i64" -> "serialize_i64"
      [] k = "u8" -> "serialize_u8"
      [] k = "u16" -> "serialize_u16"
      [] k = "u32" -> "serialize_u32"
      [] k = "u64" -> "serialize_u64"
      [] k = "i128" -> "serialize_i128"
      [] k = "u128" -> "serialize_u128"
      [] k = "f32" -> "serialize_f32"
      [] k = "f64" -> "serialize_f64"
      [] k = "char" -> "serialize_char"
      [] k = "str" -> "serialize_str"
      [] k = "string" -> "serialize_str"
      [] k = "unit" -> "serialize_unit"
      [] k = "none" -> "serialize_none"
      [] k = "bytes" -> "serialize_bytes"
      [] k = "byte_buf" -> "serialize_bytes"

\* mutant: a 64-bit integer is passed on through a 32-bit cast
VisitArg_KeepsLow32Bits(d) ==
    IF d.k \in {"i64", "u64"} THEN SubSeq(d.v, 3, 4) ELSE d.v

\* the argument the visitor passes on: the value it was given
VisitArg(d) == d.v

\* mutant: visit_some forwards to serialize_newtype_struct as well
WrapOp_SomeAsNewtype(k) == "serialize_newtype_struct"

\* visit_some, visit_newtype_struct
WrapOp(k) == IF k = "some" THEN "serialize_some" ELSE "serialize_newtype_struct"

\* mutant: the wrapper is forwarded without a name
WrapName_Empty(k) == ""

\* the name visit_newtype_struct passes to the sink
WrapName(k) == IF k = "some" THEN "" ELSE "<unknown>"

(***************************************************************************)
(* The sink (external): it builds the value it is given.  A built value    *)
(* has the sink call as its shape.                                         *)
(***************************************************************************)
Built(op, v, c, hint, name) == Val(op, v, c, hint, name)

NewCtx(op, hint) == [op |-> op, hint |-> hint, items |-> <<>>, closed |-> FALSE]

\* the value end() returns for a context
Ended(cx) == Built(cx.op, <<>>, cx.items, cx.hint, "")

(***************************************************************************)
(* Initial state: the caller holds a source over some document and a sink. *)
(***************************************************************************)
Init ==
    /\ doc \in Docs
    /\ stack = <<>>
    /\ ret = NoRet
    /\ result = NoRet
    /\ ctxs = <<>>
    /\ trace = <<>>
    /\ pulls = <<>>
    /\ faults = <<>>
    /\ trs = <<>>
    /\ loops = <<>>
    /\ firstErr = NoErr
    /\ srcErr = NoErr
    /\ failedAt = <<>>

\* the top frame returns r to its caller
Return_(r) == stack' = Popped /\ ret' = r

\* the source or the sink deviates: kind is recorded, e (if any) is noted
Fault(kind, e) ==
    /\ CanFault
    /\ faults' = Append(faults, kind)
    /\ IF e = NoErr THEN UNCHANGED <<firstErr, srcErr, failedAt>> ELSE Noted(e)

NoFault == UNCHANGED <<faults, firstErr, srcErr, failedAt>>

(***************************************************************************)
(* transcode (lib.rs 48-61)                                                *)
(***************************************************************************)
\* Transcoder::new(d), then transcoder.serialize(s) is called
Transcode ==
    /\ stack = <<>> /\ result = NoRet /\ trs = <<>>
    /\ trs' = <<Transcoder_new(doc, <<>>)>>
    /\ stack' = << Frame("transcode", "wait", NoVal, <<>>, 0, 0, "", 1),
                   Frame("serialize", "start", NoVal, <<>>, 0, 0, "", 1) >>
    /\ UNCHANGED <<doc, loops, ret, result, ctxs, trace, pulls>>
    /\ NoFault

\* the match on take_last_deserializer_error() and the result
TranscodeReturn ==
    /\ Returned /\ Top.fn = "transcode"
    /\ result' = TranscodeResult(trs[Top.tr].de_err, ret)
    /\ trs' = [trs EXCEPT ![Top.tr] = take_last_deserializer_error(@)]
    /\ stack' = <<>>
    /\ ret' = NoRet
    /\ UNCHANGED <<doc, loops, ctxs, trace, pulls>>
    /\ NoFault

(***************************************************************************)
(* Transcoder::serialize (lib.rs 137-155)                                  *)
(***************************************************************************)
\* take().expect(..) panics on an empty cell; else deserialize_any is called
Serialize ==
    /\ Running /\ Top.fn = "serialize" /\ Top.pc = "start"
    /\ LET t == trs[Top.tr] IN
         IF ~t.some
         THEN /\ result' = Res("Panic", NoVal, NoErr)
              /\ stack' = <<>>
              /\ trs' = [trs EXCEPT ![Top.tr].drives = @ + 1]
              /\ UNCHANGED pulls
         ELSE /\ trs' = [trs EXCEPT ![Top.tr] = [TakeDe(t) EXCEPT !.drives = @ + 1]]
              /\ stack' = Append(WithTop([Top EXCEPT !.pc = "wait"]),
                                 Frame("any", "start", t.de, t.path, 0, 0, "", Top.tr))
              /\ pulls' = Append(pulls, Pull("deserialize_any", t.path, 0, Len(trace)))
              /\ UNCHANGED result
    /\ UNCHANGED <<doc, loops, ret, ctxs, trace>>
    /\ NoFault

\* the match on the result of deserialize_any
SerializeReturn ==
    /\ Returned /\ Top.fn = "serialize"
    /\ trs' = [trs EXCEPT ![Top.tr].de_err = SerializeStored(ret, @)]
    /\ Return_(SerializeResult(ret))
    /\ UNCHANGED <<doc, loops, result, ctxs, trace, pulls>>
    /\ NoFault

(***************************************************************************)
(* The source (external): Deserializer::deserialize_any                    *)
(***************************************************************************)
\* the source reports the shape of its value to the visitor, or fails
DeserializeAny ==
    /\ Running /\ Top.fn = "any" /\ Top.pc = "start"
    /\ \/ /\ stack' = Append(WithTop([Top EXCEPT !.pc = "wait"]),
                             Frame("visit", "start", Top.d, Top.path, 0, 0, "", Top.tr))
          /\ UNCHANGED ret
          /\ NoFault
       \/ /\ Fault("source_error", DeErr(NextCode))
          /\ Return_(RErr(DeErr(NextCode)))
    /\ UNCHANGED <<doc, loops, result, ctxs, trace, pulls, trs>>

\* the visitor has returned: the source hands its value on, or fails after all
DeserializeAnyReturn ==
    /\ Returned /\ Top.fn = "any"
    /\ \/ /\ Return_(ret)
          /\ NoFault
       \/ /\ ret.st # "Err"
          /\ Fault("source_error_late", DeErr(NextCode))
          /\ Return_(RErr(DeErr(NextCode)))
    /\ UNCHANGED <<doc, loops, result, ctxs, trace, pulls, trs>>

(***************************************************************************)
(* Visitor (lib.rs 183-353)                                                *)
(***************************************************************************)
\* visit_bool .. visit_none, visit_bytes, visit_byte_buf: one sink call
VisitPrim ==
    /\ Running /\ Top.fn = "visit" /\ Top.d.k \in PrimShapes
    /\ \E ok \in BOOLEAN :
         LET op == VisitOp(Top.d.k)
             arg == Built(op, VisitArg(Top.d), <<>>, NoHint, "")
             r == IF ok THEN ROk(arg) ELSE RErr(SerErr(NextCode))
         IN  /\ IF ok THEN NoFault ELSE Fault("sink_error", r.err)
             /\ trace' = trace \o << Call(op, arg, 0, Top.tr), Return(op, 0, Top.tr, r) >>
             /\ Return_(TrySerializer(r))
    /\ UNCHANGED <<doc, loops, result, ctxs, pulls, trs>>

\* visit_some, visit_newtype_struct: with_transcoder! up to the sink call
VisitWrap ==
    /\ Running /\ Top.fn = "visit" /\ Top.d.k \in {"some", "newtype"}
    /\ LET op == WrapOp(Top.d.k)
           id == Len(trs) + 1
           path == Append(Top.path, 1)
           arg == Built(op, <<>>, <<>>, NoHint, WrapName(Top.d.k))
       IN  /\ trs' = Append(trs, Transcoder_new(Top.d.c[1], path))
           /\ stack' = Append(WithTop(Frame("with", "wait", Top.d.c[1], path, 0, 0, op, id)),
                              Frame("sink", "start", arg, path, 0, 0, op, id))
    /\ UNCHANGED <<doc, loops, ret, result, ctxs, trace, pulls>>
    /\ NoFault

\* with_transcoder! after the sink call: a stored source error wins
WithTranscoderReturn ==
    /\ Returned /\ Top.fn = "with"
    /\ trs' = [trs EXCEPT ![Top.tr] = take_last_deserializer_error(@)]
    /\ Return_(WithTranscoderResult(trs[Top.tr].de_err, ret))
    /\ UNCHANGED <<doc, loops, result, ctxs, trace, pulls>>
    /\ NoFault

(***************************************************************************)
(* The sink (external): a call that carries a payload, serialize_some,     *)
(* serialize_newtype_struct, serialize_element, serialize_key or           *)
(* serialize_value.  The sink decides whether and when it drives the       *)
(* payload (payload.serialize(..)) and what it returns.                    *)
(***************************************************************************)
\* the call of the top (sink) frame ends with r: Ok(payload's value) or Err
SinkFinish(evs, r) ==
    /\ trace' = trace \o evs \o << Return(Top.op, Top.s, Top.tr, r) >>
    /\ ctxs' = IF r.st = "Ok" /\ Top.s # 0
               THEN [ctxs EXCEPT ![Top.s].items = Append(@, r.val)]
               ELSE ctxs
    /\ Return_(IF r.st # "Ok" THEN RErr(r.err)
               ELSE IF Top.s # 0 THEN ROk(NoVal)
               ELSE ROk(Built(Top.op, <<>>, <<r.val>>, NoHint, Top.d.name)))

\* the sink is called: it drives the payload, leaves it alone, or fails
SinkCall ==
    /\ Running /\ Top.fn = "sink" /\ Top.pc = "start"
    /\ LET call == Call(Top.op, Top.d, Top.s, Top.tr) IN
       \/ /\ trace' = Append(trace, call)
          /\ stack' = Append(WithTop([Top EXCEPT !.pc = "wait", !.i = 1]),
                             Frame("serialize", "start", NoVal, <<>>, 0, 0, "", Top.tr))
          /\ UNCHANGED <<ret, ctxs>>
          /\ NoFault
       \/ /\ Fault("sink_skip", NoErr)
          /\ SinkFinish(<<call>>, ROk(Hole))
       \/ /\ Fault("sink_error", SerErr(NextCode))
          /\ SinkFinish(<<call>>, RErr(SerErr(NextCode)))
    /\ UNCHANGED <<doc, loops, result, pulls, trs>>

\* the payload's serialize has returned to the sink
SinkReturn ==
    /\ Returned /\ Top.fn = "sink"
    /\ \/ /\ SinkFinish(<<>>, ret)
          /\ NoFault
       \/ /\ ret.st = "Err"
          /\ Fault("sink_mask", NoErr)
          /\ SinkFinish(<<>>, ROk(Hole))
       \/ /\ ret.st = "Err"
          /\ Fault("sink_replace", SerErr(NextCode))
          /\ SinkFinish(<<>>, RErr(SerErr(NextCode)))
       \/ /\ ret.st = "Ok"
          /\ Fault("sink_error", SerErr(NextCode))
          /\ SinkFinish(<<>>, RErr(SerErr(NextCode)))
       \/ /\ Fault("sink_redrive", NoErr)
          /\ stack' = Append(WithTop([Top EXCEPT !.i = @ + 1]),
                             Frame("serialize", "start", NoVal, <<>>, 0, 0, "", Top.tr))
          /\ ret' = NoRet
          /\ UNCHANGED <<trace, ctxs>>
    /\ UNCHANGED <<doc, loops, result, pulls, trs>>

(***************************************************************************)
(* Visitor::visit_seq and Visitor::visit_map (lib.rs 314-340)              *)
(***************************************************************************)
\* mutant: the number of children is passed in place of the source's hint
SizeHint_CountsChildren(d) == IF d.k = "seq" THEN Len(d.c) ELSE Len(d.c) \div 2

\* v.size_hint(), passed to serialize_seq / serialize_map
SizeHint(d) == d.hint

BeginOp(k) == IF k = "seq" THEN "serialize_seq" ELSE "serialize_map"

\* mutant: the result of the begin call is not looked at
BeginStep_IgnoresError(r) == "loop"

\* the match on the result of serialize_seq / serialize_map: the loop is
\* entered, or the sink's error is returned at once
BeginStep(r) == IF r.st = "Ok" THEN "loop" ELSE "return"

\* the access method the loop calls first
FirstPull(k) == IF k = "seq" THEN "next_element_seed" ELSE "next_key_seed"

\* mutant: a source error ends the loop as the end of the elements does
LoopStep_EndsOnSourceError(r) ==
    CASE r.st = "OkErr" -> "return"
      [] r.st \in {"None", "Err"} -> "end"
      [] OTHER -> "next"

\* mutant: the result of an append is dropped, the loop goes on
LoopStep_DropsSinkError(r) ==
    CASE r.st = "Err" -> "fail"
      [] r.st = "None" -> "end"
      [] OTHER -> "next"

\* mutant: if let instead of while let, the loop body runs once
LoopStep_RunsOnce(r) ==
    CASE r.st = "Err" -> "fail"
      [] r.st = "OkErr" -> "return"
      [] OTHER -> "end"

\* what the loop does with the result of a pull: "fail" is the ? operator,
\* "return" the early return of try_serializer!, "end" leaves the loop
LoopStep(r) ==
    CASE r.st = "Err" -> "fail"
      [] r.st = "OkErr" -> "return"
      [] r.st = "None" -> "end"
      [] OTHER -> "next"

\* mutant: the value is not asked for, the next key is
NextPull_SkipsValue(op) ==
    IF op = "next_element_seed" THEN "next_element_seed" ELSE "next_key_seed"

\* the pull that follows a successful one
NextPull(op) ==
    CASE op = "next_element_seed" -> "next_element_seed"
      [] op = "next_key_seed" -> "next_value_seed"
      [] OTHER -> "next_key_seed"

\* mutant: the position never advances
ChildAt_NeverAdvances(op, i) == IF op = "next_value_seed" THEN 2 ELSE 1

\* mutant: the position advances at every other iteration only
ChildAt_AdvancesEveryOther(op, i) ==
    CASE op = "next_element_seed" -> (i \div 2) + 1
      [] op = "next_key_seed" -> 2 * (i \div 2) + 1
      [] OTHER -> 2 * (i \div 2) + 2

\* the child of the composite the pull op at loop position i is about
ChildAt(op, i) ==
    CASE op = "next_element_seed" -> i + 1
      [] op = "next_key_seed" -> 2 * i + 1
      [] OTHER -> 2 * i + 2

\* serialize_seq / serialize_map with the size hint, then the first pull
VisitBegin ==
    /\ Running /\ Top.fn = "visit" /\ Top.d.k \in {"seq", "map"}
    /\ \E ok \in BOOLEAN :
         LET op == BeginOp(Top.d.k)
             h == Len(ctxs) + 1
             arg == Built(op, <<>>, <<>>, SizeHint(Top.d), "")
             r == IF ok THEN ROk(NoVal) ELSE RErr(SerErr(NextCode))
             pull == FirstPull(Top.d.k)
             s == IF ok THEN h ELSE 0
         IN  /\ trace' = trace \o << Call(op, arg, s, Top.tr), Return(op, s, Top.tr, r) >>
             /\ IF ok THEN NoFault ELSE Fault("sink_error", r.err)
             /\ IF BeginStep(r) = "loop"
                THEN /\ ctxs' = Append(ctxs, NewCtx(op, SizeHint(Top.d)))
                     /\ stack' = Append(
                            WithTop(Frame("loop", "wait", Top.d, Top.path, 0, h, pull, 0)),
                            Frame("next", "start", Top.d, Top.path, ChildAt(pull, 0), h, pull, 0))
                     /\ pulls' = pulls \o << Pull("size_hint", Top.path, h, Len(trace)),
                                            Pull(pull, Top.path, h, Len(trace) + 2) >>
                     /\ loops' = Append(loops, Loop(Top.path, 0, "open"))
                     /\ UNCHANGED ret
                ELSE /\ Return_(ROkErr(r.err))
                     /\ pulls' = Append(pulls, Pull("size_hint", Top.path, 0, Len(trace)))
                     /\ UNCHANGED <<ctxs, loops>>
    /\ UNCHANGED <<doc, result, trs>>

\* the body of the while loop, and s.end() after it
VisitLoop ==
    /\ Returned /\ Top.fn = "loop"
    /\ LET step == LoopStep(ret) IN
       \/ /\ step = "fail"
          /\ Return_(RErr(ret.err))
          /\ loops' = [loops EXCEPT ![Top.s].out = "fail"]
          /\ UNCHANGED <<ctxs, trace, pulls>>
          /\ NoFault
       \/ /\ step = "return"
          /\ Return_(ROkErr(ret.err))
          /\ loops' = [loops EXCEPT ![Top.s].out = "return"]
          /\ UNCHANGED <<ctxs, trace, pulls>>
          /\ NoFault
       \/ /\ step = "next"
          /\ LET pull == NextPull(Top.op)
                 i == IF Top.op = "next_key_seed" THEN Top.i ELSE Top.i + 1
             IN  /\ stack' = Append(
                        WithTop([Top EXCEPT !.op = pull, !.i = i]),
                        Frame("next", "start", Top.d, Top.path, ChildAt(pull, i), Top.s, pull, 0))
                 /\ pulls' = Append(pulls, Pull(pull, Top.path, Top.s, Len(trace)))
          /\ loops' = [loops EXCEPT ![Top.s].fwd = @ + 1]
          /\ ret' = NoRet
          /\ UNCHANGED <<ctxs, trace>>
          /\ NoFault
       \/ /\ step = "end"
          /\ \E ok \in BOOLEAN :
               LET r == IF ok THEN ROk(Ended(ctxs[Top.s])) ELSE RErr(SerErr(NextCode))
               IN  /\ IF ok THEN NoFault ELSE Fault("sink_error", r.err)
                   /\ trace' = trace \o << Call("end", NoVal, Top.s, 0),
                                           Return("end", Top.s, 0, r) >>
                   /\ ctxs' = [ctxs EXCEPT ![Top.s].closed = TRUE]
                   /\ Return_(TrySerializer(r))
          /\ loops' = [loops EXCEPT ![Top.s].out = "end"]
          /\ UNCHANGED pulls
    /\ UNCHANGED <<doc, result, trs>>

(***************************************************************************)
(* The source (external): SeqAccess::next_element_seed,                    *)
(* MapAccess::next_key_seed and MapAccess::next_value_seed                 *)
(***************************************************************************)
\* the source signals the end, hands the next sub-source to the seed, or fails
NextSeed ==
    /\ Running /\ Top.fn = "next" /\ Top.pc = "start"
    /\ \/ /\ Top.i > Len(Top.d.c)
          /\ Return_(RNone)
          /\ NoFault
       \/ /\ Top.i <= Len(Top.d.c)
          /\ stack' = Append(WithTop([Top EXCEPT !.pc = "wait"]),
                             Frame("with", "start", Top.d.c[Top.i], Append(Top.path, Top.i),
                                   0, Top.s, Top.op, 0))
          /\ UNCHANGED ret
          /\ NoFault
       \/ /\ Fault("source_error", DeErr(NextCode))
          /\ Return_(RErr(DeErr(NextCode)))
    /\ UNCHANGED <<doc, loops, result, ctxs, trace, pulls, trs>>

\* the seed has returned: the source hands its value on, or fails after all
NextSeedReturn ==
    /\ Returned /\ Top.fn = "next"
    /\ \/ /\ Return_(ret)
          /\ NoFault
       \/ /\ ret.st # "Err"
          /\ Fault("source_error_late", DeErr(NextCode))
          /\ Return_(RErr(DeErr(NextCode)))
    /\ UNCHANGED <<doc, loops, result, ctxs, trace, pulls, trs>>

(***************************************************************************)
(* SeqSeed, KeySeed, ValueSeed (lib.rs 355-395)                            *)
(***************************************************************************)
\* mutant: ValueSeed appends its payload as a key
SeedOp_ValueAsKey(pull) ==
    IF pull = "next_element_seed" THEN "serialize_element" ELSE "serialize_key"

\* the sink call each seed makes
SeedOp(pull) ==
    CASE pull = "next_element_seed" -> "serialize_element"
      [] pull = "next_key_seed" -> "serialize_key"
      [] OTHER -> "serialize_value"

\* DeserializeSeed::deserialize: with_transcoder! up to the sink call
SeedDeserialize ==
    /\ Running /\ Top.fn = "with" /\ Top.pc = "start"
    /\ LET op == SeedOp(Top.op)
           id == Len(trs) + 1
       IN  /\ trs' = Append(trs, Transcoder_new(Top.d, Top.path))
           /\ stack' = Append(WithTop([Top EXCEPT !.pc = "wait", !.op = op, !.tr = id]),
                              Frame("sink", "start", NoVal, Top.path, 0, Top.s, op, id))
    /\ UNCHANGED <<doc, loops, ret, result, ctxs, trace, pulls>>
    /\ NoFault

Next ==
    \/ Transcode
    \/ TranscodeReturn
    \/ Serialize
    \/ SerializeReturn
    \/ DeserializeAny
    \/ DeserializeAnyReturn
    \/ VisitPrim
    \/ VisitWrap
    \/ WithTranscoderReturn
    \/ SinkCall
    \/ SinkReturn
    \/ VisitBegin
    \/ VisitLoop
    \/ NextSeed
    \/ NextSeedReturn
    \/ SeedDeserialize

Spec == Init /\ [][Next]_vars

\* the program runs: a call that can be made or can return, does
FairSpec == Spec /\ WF_vars(Next)

(***************************************************************************)
(* Reading the histories.                                                  *)
(***************************************************************************)
\* transcode has returned to its caller (it has not panicked)
Finished == result.st \in {"Ok", "DeserializerError", "SerializerError"}

\* the source or the sink has deviated in the given way
Has(kind) == \E j \in 1..Len(faults) : faults[j] = kind

\* the sink has turned an error of a payload into success or into another error
SinkMasked == Has("sink_mask") \/ Has("sink_replace")

\* the calls the sink has received, in order
Calls == SelectSeq(trace, LAMBDA e : e.ev = "call")

\* the calls the sink has received for composite context s, and their returns
CallsFor(s) == SelectSeq(trace, LAMBDA e : e.ev = "call" /\ e.s = s)

ReturnsFor(s) == SelectSeq(trace, LAMBDA e : e.ev = "ret" /\ e.s = s)

\* the source operations of kind op made for composite context s
PullsFor(op, s) == SelectSeq(pulls, LAMBDA p : p.op = op /\ p.s = s)

\* the sub-document of d at path
RECURSIVE SubDoc(_, _)
SubDoc(d, path) ==
    IF path = <<>> THEN d ELSE SubDoc(d.c[Head(path)], Tail(path))

\* format B's own decode of what the sink built (src/src/test.rs 18)
DecodeShape(op) ==
    CASE op = "serialize_bool" -> "bool"
      [] op = "serialize_i8" -> "i8"
      [] op = "serialize_i16" -> "i16"
      [] op = "serialize_i32" -> "i32"
      [] op = "serialize_i64" -> "i64"
      [] op = "serialize_u8" -> "u8"
      [] op = "serialize_u16" -> "u16"
      [] op = "serialize_u32" -> "u32"
      [] op = "serialize_u64" -> "u64"
      [] op = "serialize_i128" -> "i128"
      [] op = "serialize_u128" -> "u128"
      [] op = "serialize_f32" -> "f32"
      [] op = "serialize_f64" -> "f64"
      [] op = "serialize_char" -> "char"
      [] op = "serialize_str" -> "str"
      [] op = "serialize_bytes" -> "bytes"
      [] op = "serialize_unit" -> "unit"
      [] op = "serialize_none" -> "none"
      [] op = "serialize_some" -> "some"
      [] op = "serialize_newtype_struct" -> "newtype"
      [] op = "serialize_seq" -> "seq"
      [] op = "serialize_map" -> "map"
      [] OTHER -> op

RECURSIVE Decode(_)
Decode(b) ==
    Val(DecodeShape(b.k), b.v,
        IF b.c = <<>> THEN <<>> ELSE [j \in 1..Len(b.c) |-> Decode(b.c[j])], NoHint, "")

\* the value a document stands for: owned and borrowed text are the same
\* value, a size hint and a wrapper's name are not part of it
ValueShape(k) ==
    CASE k = "string" -> "str"
      [] k = "byte_buf" -> "bytes"
      [] OTHER -> k

RECURSIVE ValueOf(_)
ValueOf(d) ==
    Val(ValueShape(d.k), d.v,
        IF d.c = <<>> THEN <<>> ELSE [j \in 1..Len(d.c) |-> ValueOf(d.c[j])], NoHint, "")

\* the key/value pairs of a keyed collection
PairsOf(m) == { <<m.c[2 * j - 1], m.c[2 * j]>> : j \in 1..(Len(m.c) \div 2) }

(***************************************************************************)
(* C1  A sink error is reported as Error::SerializerError.                 *)
(***************************************************************************)
\* C1: whenever a sink call returns an error before any source operation has
\* failed (and the sink itself hands that error on unchanged), transcode
\* returns Error::SerializerError carrying that sink error, whatever the
\* source does after the visitor has returned the error to it.
C1_SinkErrorIsSerializerError ==
    (Finished /\ firstErr.dom = "Ser" /\ ~SinkMasked)
        => result = Res("SerializerError", NoVal, firstErr)

\* the same, for sources that hand on what the visitor or seed returned
C1_HoldsForPassiveSources ==
    (Finished /\ firstErr.dom = "Ser" /\ ~SinkMasked /\ ~Has("source_error_late"))
        => result = Res("SerializerError", NoVal, firstErr)

(***************************************************************************)
(* C2  A source error is reported as Error::DeserializerError.             *)
(***************************************************************************)
\* C2: whenever a source operation has failed, at any depth, transcode
\* returns Error::DeserializerError carrying the source's own error value
\* (not the sink error made from its text, and never SerializerError).
C2_SourceErrorIsDeserializerError ==
    (Finished /\ srcErr # NoErr)
        => result = Res("DeserializerError", NoVal, srcErr)

\* a nested source operation failed, the sink handed the error made from its
\* text on, and transcode has returned
C2_Witness ==
    /\ result.st = "DeserializerError"
    /\ Len(trs) > 2
    /\ faults = <<"source_error">>
    /\ Len(Calls) > 2

(***************************************************************************)
(* C3  A Transcoder is drained at most once.                               *)
(***************************************************************************)
\* serialize is about to run on a Transcoder it has run on before
SecondSerialize ==
    /\ Running /\ Top.fn = "serialize" /\ Top.pc = "start"
    /\ trs[Top.tr].drives >= 1

\* C3: a second serialize on the same Transcoder, whether the first succeeded
\* or failed, panics before any source or sink operation is performed and
\* never returns; so no source is handed to deserialize_any twice.
C3_SecondSerializePanics ==
    /\ [][SecondSerialize =>
            /\ result'.st = "Panic"
            /\ stack' = <<>>
            /\ trace' = trace /\ pulls' = pulls /\ ctxs' = ctxs]_vars
    /\ [](\A j, l \in 1..Len(pulls) :
            (pulls[j].op = "deserialize_any" /\ pulls[l].op = "deserialize_any"
                /\ pulls[j].path = pulls[l].path) => j = l)

\* a sink drove a payload a second time after its first drive had succeeded
C3_Witness ==
    /\ result.st = "Panic"
    /\ firstErr = NoErr
    /\ \E j \in 1..Len(trs) : trs[j].drives = 2

(***************************************************************************)
(* C4  The source fails in the middle of a sequence.                       *)
(***************************************************************************)
\* p is a prefix of q
IsPrefix(p, q) == Len(p) <= Len(q) /\ SubSeq(q, 1, Len(p)) = p

\* the sequences in which the source has failed, when an element was pulled
\* or while an element was being decoded
FailedSeqs ==
    { s \in 1..Len(loops) :
        /\ ctxs[s].op = "serialize_seq"
        /\ \E j \in 1..Len(failedAt) :
               /\ IsPrefix(loops[s].path, failedAt[j].path)
               /\ failedAt[j].path = loops[s].path => failedAt[j].fn = "next" }

\* the calls of kind op among es
OfOp(es, op) == SelectSeq(es, LAMBDA e : e.op = op)

\* the sink call that carries the element after the fwd forwarded ones was
\* made: the source failed while that element was being decoded
DecodingFailed(s) ==
    \E j \in 1..Len(trs) : trs[j].path = Append(loops[s].path, loops[s].fwd + 1)

\* C4 as claimed (for a sink that keeps to the protocol and a source that
\* fails before it calls the visitor or the seed): after k elements were
\* forwarded the sink has received exactly k serialize_element calls, all
\* successful, never the end call, and transcode returns DeserializerError.
C4_ExactlyKAppends ==
    (\A j \in 1..Len(faults) : faults[j] = "source_error") =>
    \A s \in FailedSeqs :
        /\ Len(OfOp(CallsFor(s), "serialize_element")) = loops[s].fwd
        /\ \A j \in 1..Len(OfOp(ReturnsFor(s), "serialize_element")) :
               OfOp(ReturnsFor(s), "serialize_element")[j].ok
        /\ OfOp(CallsFor(s), "end") = <<>>
        /\ Finished => result.st = "DeserializerError"

\* C4 amended: the sink has received the k successful serialize_element
\* calls and, when the source failed while the next element was being
\* decoded (not when it was pulled), one more serialize_element call, the one
\* carrying that element; never the end call; DeserializerError is returned.
C4_KAppendsPlusTheFailingOne ==
    \A s \in FailedSeqs :
        LET appends == OfOp(CallsFor(s), "serialize_element")
            returns == OfOp(ReturnsFor(s), "serialize_element")
            k == loops[s].fwd
        IN  /\ Len(appends) = k + (IF DecodingFailed(s) THEN 1 ELSE 0)
            /\ Len(returns) >= k
            /\ \A j \in 1..k : returns[j].ok
            /\ \A j \in 1..Len(appends) :
                   trs[appends[j].tr].src = SubDoc(doc, loops[s].path).c[j]
            /\ OfOp(CallsFor(s), "end") = <<>>
            /\ Finished => result = Res("DeserializerError", NoVal, srcErr)

\* the source failed after 2 of 4 elements, while decoding the third
C4_Witness ==
    /\ doc = Seq4
    /\ Finished
    /\ 1 \in FailedSeqs
    /\ loops[1].fwd = 2
    /\ DecodingFailed(1)

(***************************************************************************)
(* C5  Nothing happens after the first error.                              *)
(***************************************************************************)
\* the core makes no sink call and no source operation in this step
Quiet == Calls' = Calls /\ pulls' = pulls

\* C5 as claimed: once any source operation or sink call has returned an
\* error, no further source operation and no further sink call is made.
C5_NothingAfterAnyError ==
    [][firstErr # NoErr => Quiet]_vars

\* C5 amended: once a source operation has failed, or a sink call has
\* returned an error that the sink does not turn into success in an
\* enclosing payload-carrying call, no further source operation and no
\* further sink call is made (so no end call on any open composite).
C5_NothingAfterUnmaskedError ==
    [][(srcErr # NoErr \/ (firstErr # NoErr /\ ~Has("sink_mask"))) => Quiet]_vars

\* a sink call failed inside a composite, which was left open for good
C5_Witness ==
    /\ Finished
    /\ firstErr.dom = "Ser"
    /\ ~Has("sink_mask")
    /\ \E s \in 1..Len(ctxs) : ~ctxs[s].closed /\ ctxs[s].items # <<>>

(***************************************************************************)
(* C6  In a keyed collection the key is forwarded before the value is      *)
(* requested.                                                              *)
(***************************************************************************)
MapCtxs == { s \in 1..Len(ctxs) : ctxs[s].op = "serialize_map" }

\* C6: every next_value_seed is requested right after the serialize_key of
\* the same collection has returned successfully; it is requested exactly
\* when the key pull came back successful; so the sink's calls for one
\* collection alternate key, value, key, value, and end never follows a key.
C6_KeyBeforeValue ==
    \A s \in MapCtxs :
        LET cs == CallsFor(s)
            vals == PullsFor("next_value_seed", s)
            keyOks == SelectSeq(ReturnsFor(s), LAMBDA e : e.op = "serialize_key" /\ e.ok)
        IN  /\ \A j \in 1..Len(vals) :
                   /\ vals[j].at >= 1
                   /\ trace[vals[j].at] = Ev("ret", "serialize_key", NoVal, s,
                                              trace[vals[j].at].tr, TRUE)
            /\ Len(vals) <= Len(keyOks)
            /\ Len(vals) = (loops[s].fwd + 1) \div 2
            /\ cs[1].op = "serialize_map"
            /\ \A j \in 2..Len(cs) :
                   /\ cs[j].op \in {"serialize_key", "serialize_value", "end"}
                   /\ cs[j].op = "serialize_value" <=> cs[j - 1].op = "serialize_key"

\* one pair was forwarded, then the append of the second key failed and its
\* value was never requested
C6_Witness ==
    /\ Finished
    /\ \E s \in MapCtxs :
           LET keys == SelectSeq(ReturnsFor(s), LAMBDA e : e.op = "serialize_key")
           IN  /\ Len(keys) = 2
               /\ keys[1].ok
               /\ ~keys[2].ok
               /\ Len(PullsFor("next_value_seed", s)) = 1

(***************************************************************************)
(* C7  Primitives are forwarded one to one.                                *)
(***************************************************************************)
C7Shapes ==
    { "bool", "i8", "i16", "i32", "i64", "u8", "u16", "u32", "u64", "i128", "u128",
      "f32", "f64", "char", "str", "string", "bytes", "byte_buf", "unit" }

\* the sink calls that carry a Transcoder as their payload
PayloadOps ==
    { "serialize_some", "serialize_newtype_struct", "serialize_element",
      "serialize_key", "serialize_value" }

\* the calls the visitor of Transcoder j made itself
CallsBy(j) ==
    SelectSeq(trace, LAMBDA e : e.ev = "call" /\ e.tr = j /\ e.op \notin PayloadOps)

\* C7: driving a Transcoder over a primitive makes at most one sink call (one,
\* when the source does not fail), of the kind that decodes to the source's
\* shape and with the source's value; when the source reports no error the
\* call's result, value or error, is what transcode returns unchanged.
C7_PrimitivesOneToOne ==
    /\ \A l \in 1..Len(trace) :
           LET e == trace[l]
           IN  (/\ e.ev = "call"
                /\ e.op \notin PayloadOps
                /\ e.tr >= 1
                /\ trs[e.tr].src.k \in C7Shapes) =>
                   /\ e.arg.k = e.op
                   /\ Decode(e.arg) = ValueOf(trs[e.tr].src)
                   /\ \A m \in 1..(l - 1) :
                          ~(trace[m].ev = "call" /\ trace[m].tr = e.tr
                            /\ trace[m].op \notin PayloadOps)
    /\ (doc.k \in C7Shapes /\ Finished /\ srcErr = NoErr) =>
           /\ Len(trace) = 2
           /\ IF trace[2].ok
              THEN /\ result = Res("Ok", trace[1].arg, NoErr)
                   /\ Decode(result.val) = ValueOf(doc)
              ELSE result = Res("SerializerError", NoVal, firstErr)

\* the least 64-bit integer went through
C7_Witness ==
    /\ doc = Prim("i64", <<32768, 0, 0, 0>>)
    /\ result.st = "Ok"
    /\ Len(Calls) = 1

(***************************************************************************)
(* C8  Optionals.                                                          *)
(***************************************************************************)
\* the trace of an absent optional at the top level
AbsentCalls == << Call("serialize_none", Built("serialize_none", <<>>, <<>>, NoHint, ""), 0, 1) >>

\* C8: an absent optional makes exactly one call, serialize_none; a present
\* one makes one serialize_some call whose payload is a new, undrained
\* Transcoder over the nested source, and driving it emits the inner value;
\* so the calls for "absent" differ from those for "present", whatever it wraps.
C8_Optionals ==
    /\ \A j \in 1..Len(trs) :
           trs[j].src.k = "none" =>
               /\ \A l \in 1..Len(CallsBy(j)) : CallsBy(j)[l].op = "serialize_none"
               /\ Len(CallsBy(j)) <= 1
    /\ (doc = DNone /\ Finished /\ srcErr = NoErr) => Calls = AbsentCalls
    /\ \A j \in 1..Len(trs) :
           (trs[j].src.k = "some" /\ trs[j].drives >= 1) =>
               LET sub == Append(trs[j].path, 1)
                   somes == SelectSeq(trace, LAMBDA e :
                               e.ev = "call" /\ e.op \in PayloadOps /\ trs[e.tr].path = sub)
               IN  /\ Len(somes) <= 1
                   /\ \A l \in 1..Len(somes) :
                          /\ somes[l].op = "serialize_some"
                          /\ trs[somes[l].tr].src = trs[j].src.c[1]
                          /\ somes[l].tr > j
    /\ (Running /\ Top.fn = "sink" /\ Top.pc = "start") =>
           trs[Top.tr].some /\ trs[Top.tr].drives = 0
    /\ (doc.k = "some" /\ Calls # <<>>) =>
           /\ Calls[1].op = "serialize_some"
           /\ Calls # AbsentCalls
    /\ (doc.k = "some" /\ Finished /\ faults = <<>>) =>
           /\ result.st = "Ok"
           /\ Decode(result.val) = ValueOf(doc)
           /\ Decode(result.val) # ValueOf(DNone)

\* Some(0i32) went through
C8_Witness ==
    /\ doc = DSome(Prim("i32", <<0, 0>>))
    /\ result.st = "Ok"
    /\ Len(Calls) = 2

(***************************************************************************)
(* C9  Sequences.                                                          *)
(***************************************************************************)
SeqCtxs == { s \in 1..Len(ctxs) : ctxs[s].op = "serialize_seq" }

\* C9: when nothing fails and the sink drives each payload once, the sink
\* receives for every sequence one serialize_seq, then one serialize_element
\* per element, the j-th carrying a Transcoder over the j-th element, then
\* one end; what it built decodes to the source's sequence, in order.
C9_Sequences ==
    (Finished /\ faults = <<>>) =>
        /\ \A s \in SeqCtxs :
               LET d == SubDoc(doc, loops[s].path)
                   n == Len(d.c)
                   cs == CallsFor(s)
               IN  /\ Len(cs) = n + 2
                   /\ cs[1].op = "serialize_seq"
                   /\ \A j \in 1..n :
                          /\ cs[j + 1].op = "serialize_element"
                          /\ trs[cs[j + 1].tr].src = d.c[j]
                          /\ Decode(ctxs[s].items[j]) = ValueOf(d.c[j])
                   /\ cs[n + 2].op = "end"
                   /\ Decode(Ended(ctxs[s])) = ValueOf(d)
        /\ doc.k = "seq" =>
               /\ result.st = "Ok"
               /\ Decode(result.val) = ValueOf(doc)
               /\ SeqCtxs # {}

\* vec![0, 1, 2, 3] went through
C9_Witness ==
    /\ doc = Seq4
    /\ result.st = "Ok"
    /\ faults = <<>>

(***************************************************************************)
(* C10  Keyed collections.                                                 *)
(***************************************************************************)
\* C10: when nothing fails and the sink drives each payload once, the sink
\* receives for every keyed collection one serialize_map, then for each pair
\* one serialize_key followed by one serialize_value, then one end; what it
\* built has the source's keys, each with the value the source paired it with.
C10_KeyedCollections ==
    (Finished /\ faults = <<>>) =>
        /\ \A s \in MapCtxs :
               LET d == SubDoc(doc, loops[s].path)
                   n == Len(d.c)
                   cs == CallsFor(s)
               IN  /\ Len(cs) = n + 2
                   /\ cs[1].op = "serialize_map"
                   /\ \A j \in 1..n :
                          /\ cs[j + 1].op =
                                 IF j % 2 = 1 THEN "serialize_key" ELSE "serialize_value"
                          /\ trs[cs[j + 1].tr].src = d.c[j]
                   /\ cs[n + 2].op = "end"
                   /\ PairsOf(Decode(Ended(ctxs[s]))) = PairsOf(ValueOf(d))
                   /\ Cardinality(PairsOf(Decode(Ended(ctxs[s])))) = n \div 2
        /\ doc.k = "map" =>
               /\ result.st = "Ok"
               /\ PairsOf(Decode(result.val)) = PairsOf(ValueOf(doc))
        /\ doc = HelloGoodbye =>
               PairsOf(Decode(result.val)) =
                   { << Prim("str", <<104, 101, 108, 108, 111>>),
                        Val("seq", <<>>, << Prim("i32", <<0, 1>>), Prim("i32", <<0, 2>>) >>,
                            NoHint, "") >>,
                     << Prim("str", <<103, 111, 111, 100, 98, 121, 101>>),
                        Val("seq", <<>>, <<>>, NoHint, "") >> }

\* {"hello": [1, 2], "goodbye": []} went through
C10_Witness ==
    /\ doc = HelloGoodbye
    /\ result.st = "Ok"
    /\ faults = <<>>

(***************************************************************************)
(* C11  The size hint is passed through.                                   *)
(***************************************************************************)
BeginOps == { "serialize_seq", "serialize_map" }

\* the position in pulls of the size_hint read for the composite at path
HintPulls(path) ==
    { j \in 1..Len(pulls) : pulls[j].op = "size_hint" /\ pulls[j].path = path }

\* C11: every serialize_seq / serialize_map call, failed ones included, carries
\* the hint the source reported for that composite (None, zero or a count),
\* which was read just before the call and before any element or key of the
\* composite was pulled; a loop that reached end has made one append per
\* child the source holds, whether or not the hint says so.
C11_SizeHintPassedThrough ==
    /\ \A l \in 1..Len(trace) :
           (trace[l].ev = "call" /\ trace[l].op \in BeginOps) =>
               LET path == trs[trace[l].tr].path
                   d == SubDoc(doc, path)
               IN  /\ trace[l].arg.hint = d.hint
                   /\ trace[l].arg = Built(BeginOp(d.k), <<>>, <<>>, d.hint, "")
                   /\ \E j \in HintPulls(path) :
                          /\ pulls[j].at = l - 1
                          /\ \A m \in 1..Len(pulls) :
                                 (pulls[m].path = path /\ pulls[m].op \in
                                     {"next_element_seed", "next_key_seed", "next_value_seed"})
                                     => m > j
                   /\ Cardinality(HintPulls(path)) = 1
    /\ \A s \in 1..Len(ctxs) :
           loops[s].out = "end" =>
               /\ Len(SelectSeq(CallsFor(s), LAMBDA e : e.op \in PayloadOps))
                      = Len(SubDoc(doc, loops[s].path).c)
               /\ ctxs[s].hint = SubDoc(doc, loops[s].path).hint

\* a sequence announced as empty delivered two elements
C11_Witness ==
    /\ doc = DSeq(0, <<I32(1), I64(2)>>)
    /\ result.st = "Ok"
    /\ Len(ctxs[1].items) = 2
    /\ Calls[1].arg.hint = 0

(***************************************************************************)
(* C12  Single-field wrappers.                                             *)
(***************************************************************************)
\* the serialize_newtype_struct calls the sink has received
NewtypeCalls == SelectSeq(trace, LAMBDA e : e.ev = "call" /\ e.op = "serialize_newtype_struct")

\* C12: every serialize_newtype_struct call has the name "<unknown>" and as
\* payload a Transcoder made for it, full and not driven before, over the
\* wrapper's nested source; a wrapper gets at most one such call, exactly one
\* once it was forwarded; driving the payload hands the inner value on as is.
C12_NewtypePlaceholderName ==
    /\ \A l \in 1..Len(NewtypeCalls) :
           LET e == NewtypeCalls[l]
               path == trs[e.tr].path
               outer == SubDoc(doc, SubSeq(path, 1, Len(path) - 1))
           IN  /\ e.arg.name = "<unknown>"
               /\ e.arg = Built("serialize_newtype_struct", <<>>, <<>>, NoHint, "<unknown>")
               /\ outer.k = "newtype"
               /\ trs[e.tr].src = outer.c[1]
               /\ \A m \in 1..Len(NewtypeCalls) : NewtypeCalls[m].tr = e.tr => m = l
    /\ (Running /\ Top.fn = "sink" /\ Top.pc = "start" /\ Top.op = "serialize_newtype_struct") =>
           /\ trs[Top.tr].some
           /\ trs[Top.tr].drives = 0
           /\ Top.tr = Len(trs)
    /\ (doc.k = "newtype" /\ Finished /\ srcErr = NoErr) => Len(NewtypeCalls) = 1
    /\ (doc.k = "newtype" /\ Finished /\ faults = <<>>) =>
           /\ result.st = "Ok"
           /\ result.val.name = "<unknown>"
           /\ Decode(result.val.c[1]) = ValueOf(doc.c[1])
           /\ Decode(result.val) = ValueOf(doc)

\* Foo(100) went through
C12_Witness ==
    /\ doc = DNewtype(I32(100))
    /\ result.st = "Ok"
    /\ Len(NewtypeCalls) = 1

(***************************************************************************)
(* C13  Sink calls are strictly sequenced and nested.                      *)
(***************************************************************************)
BadNesting == << Ev("bad", "", NoVal, 0, 0, FALSE) >>

\* the sink calls in progress after the first n events of the trace, outermost
\* first; BadNesting if a return did not belong to the innermost call
RECURSIVE OpenAfter(_)
OpenAfter(n) ==
    IF n = 0 THEN <<>>
    ELSE LET o == OpenAfter(n - 1)
             e == trace[n]
         IN  IF o = BadNesting THEN o
             ELSE IF e.ev = "call" THEN Append(o, e)
             ELSE IF o # <<>> /\ o[Len(o)].op = e.op /\ o[Len(o)].s = e.s
                              /\ o[Len(o)].tr = e.tr
                  THEN SubSeq(o, 1, Len(o) - 1)
                  ELSE BadNesting

\* the pulls of elements, keys and values made for composite context s
NextPullsFor(s) ==
    SelectSeq(pulls, LAMBDA p : p.s = s /\ p.op \in
                  {"next_element_seed", "next_key_seed", "next_value_seed"})

\* the positions in the trace of the events of the call that carries the
\* Transcoder over the sub-source at path
CarrierAt(path, ev) ==
    { l \in 1..Len(trace) :
        /\ trace[l].ev = ev /\ trace[l].op \in PayloadOps
        /\ trs[trace[l].tr].path = path }

\* the frames of the sink calls in progress
SinkFrames == SelectSeq(stack, LAMBDA f : f.fn = "sink" /\ f.pc = "wait")

\* C13: sink calls and their returns are properly bracketed, the calls in
\* progress lie on one path of the document at strictly growing depth; a
\* composite's m-th pull is made when no call for the composite is in
\* progress, right after the return of begin (m = 1) or of the append that
\* carries child m - 1; all calls of a nested composite lie between the call
\* and the return of the append that carries it.
C13_StrictSequencing ==
    LET open == OpenAfter(Len(trace)) IN
    /\ open # BadNesting
    /\ \A j \in 1..Len(open) :
           /\ open[j].op \in PayloadOps
           /\ j < Len(open) =>
                  /\ IsPrefix(trs[open[j].tr].path, trs[open[j + 1].tr].path)
                  /\ Len(trs[open[j].tr].path) < Len(trs[open[j + 1].tr].path)
    /\ Running =>
           /\ Len(open) = Len(SinkFrames)
           /\ \A j \in 1..Len(open) :
                  open[j].op = SinkFrames[j].op /\ open[j].tr = SinkFrames[j].tr
    /\ \A s \in 1..Len(ctxs) :
           LET ps == NextPullsFor(s)
               P == loops[s].path
           IN  /\ \A m \in 1..Len(ps) :
                      LET e == trace[ps[m].at]
                      IN  /\ e.ev = "ret" /\ e.s = s /\ e.ok
                          /\ IF m = 1 THEN e.op \in BeginOps
                             ELSE /\ e.op \in PayloadOps
                                  /\ trs[e.tr].path = Append(P, m - 1)
                          /\ Cardinality({ l \in 1..ps[m].at :
                                              trace[l].s = s /\ trace[l].ev = "call" })
                               = Cardinality({ l \in 1..ps[m].at :
                                                trace[l].s = s /\ trace[l].ev = "ret" })
               /\ P # <<>> =>
                      LET own == { l \in 1..Len(trace) : trace[l].s = s }
                          a == CarrierAt(P, "call")
                          b == CarrierAt(P, "ret")
                      IN  /\ Cardinality(a) = 1
                          /\ Cardinality(b) <= 1
                          /\ \A l \in own : (\A x \in a : x < l) /\ (\A x \in b : l < x)
\* inside [[1], []] the second inner sequence was begun after the call that
\* carried the first had returned
C13_Witness ==
    /\ doc = DSeq(NoHint, <<DSeq(1, <<I32(1)>>), DSeq(0, <<>>)>>)
    /\ Len(ctxs) = 3
    /\ Running
    /\ Len(OpenAfter(Len(trace))) = 1
    /\ trs[OpenAfter(Len(trace))[1].tr].path = <<2>>
    /\ CarrierAt(<<1>>, "ret") # {}

(***************************************************************************)
(* C14  One new Transcoder per payload, one drive per sub-source.          *)
(***************************************************************************)
\* the positions in the trace of the calls that carry a payload
PayloadCalls == { l \in 1..Len(trace) : trace[l].ev = "call" /\ trace[l].op \in PayloadOps }

\* C14: a Transcoder that was not driven yet holds the sub-source it was
\* made over; the payload of a sink call is the Transcoder made last, not
\* driven and without a stored error, over the sub-source at its place in the
\* document; no two Transcoders are made over one sub-source and no
\* Transcoder is carried by two calls; serialize runs on a nested Transcoder
\* only called by the sink call that carries it (on the first one only by
\* transcode); deserialize_any is invoked at most once per sub-source.
C14_FreshTranscoders ==
    /\ \A j \in 1..Len(trs) :
           /\ trs[j].src = SubDoc(doc, trs[j].path)
           /\ trs[j].drives = 0 => (trs[j].some /\ trs[j].de = trs[j].src)
           /\ \A l \in 1..Len(trs) : trs[l].path = trs[j].path => l = j
           /\ (j >= 2 /\ trs[j].drives >= 1) => \E l \in PayloadCalls : trace[l].tr = j
    /\ (Running /\ Top.fn = "sink" /\ Top.pc = "start") =>
           /\ Top.tr = Len(trs)
           /\ Top.tr >= 2
           /\ trs[Top.tr].some
           /\ trs[Top.tr].drives = 0
           /\ trs[Top.tr].de_err = NoErr
           /\ trs[Top.tr].path = Top.path
           /\ \A l \in PayloadCalls : trace[l].tr # Top.tr
    /\ \A l, m \in PayloadCalls : trace[l].tr = trace[m].tr => l = m
    /\ \A i \in 1..Len(stack) :
           stack[i].fn = "serialize" =>
               /\ i >= 2
               /\ IF stack[i].tr = 1
                  THEN stack[i - 1].fn = "transcode"
                  ELSE stack[i - 1].fn = "sink" /\ stack[i - 1].tr = stack[i].tr
    /\ \A j, l \in 1..Len(pulls) :
           (pulls[j].op = "deserialize_any" /\ pulls[l].op = "deserialize_any"
               /\ pulls[j].path = pulls[l].path) => j = l
    /\ Cardinality({ j \in 1..Len(pulls) : pulls[j].op = "deserialize_any" })
           = Cardinality({ j \in 1..Len(trs) : ~trs[j].some })

\* the payload of a value of a keyed collection is about to be handed over,
\* those of the key and of an earlier pair are drained
C14_Witness ==
    /\ Running /\ Top.fn = "sink" /\ Top.pc = "start"
    /\ Top.op = "serialize_value"
    /\ Len(trs) >= 5
    /\ \A j \in 1..(Len(trs) - 1) : ~trs[j].some

(***************************************************************************)
(* C15  A source error crosses into the sink's error domain by its text.   *)
(***************************************************************************)
\* deserialize_any has returned Err(de_err) to Transcoder::serialize
SourceFailedInDrive == Returned /\ Top.fn = "serialize" /\ ret.st = "Err"

\* C15: when deserialize_any returns a source error to Transcoder::serialize,
\* serialize returns to its caller, in one step, Err of a sink-domain error
\* whose text is exactly the source error's rendered text, and stores the
\* source error itself in that Transcoder; the next
\* take_last_deserializer_error on it (in with_transcoder! or transcode) hands
\* that very error out; otherwise serialize leaves the stored error alone.
C15_SourceErrorAsCustomText ==
    /\ [][SourceFailedInDrive =>
            /\ ret.err.dom = "De"
            /\ stack' = Popped
            /\ ret'.st = "Err"
            /\ ret'.err.dom = "Ser"
            /\ ret'.err.msg = ret.err.msg
            /\ ret'.err = Err("Ser", to_string(ret.err), 0)
            /\ trs'[Top.tr].de_err = ret.err]_vars
    /\ [][(Returned /\ Top.fn = "serialize" /\ ret.st # "Err") =>
            /\ trs' = trs
            /\ ret'.err = ret.err]_vars
    /\ [][(Returned /\ Top.fn = "with" /\ trs[Top.tr].de_err # NoErr) =>
            /\ ret' = RErr(trs[Top.tr].de_err)
            /\ trs'[Top.tr].de_err = NoErr]_vars
    /\ [][(Returned /\ Top.fn = "transcode" /\ trs[Top.tr].de_err # NoErr) =>
            /\ result' = Res("DeserializerError", NoVal, trs[Top.tr].de_err)
            /\ trs'[Top.tr].de_err = NoErr]_vars

\* a nested drive has just failed on the source side: the sink call that
\* carries the payload holds the custom error, the Transcoder the original
C15_Witness ==
    /\ Returned /\ Top.fn = "sink"
    /\ ret = RErr(Err("Ser", "invalid input", 0))
    /\ trs[Top.tr].de_err = DeErr(1)
    /\ faults = <<"source_error">>

(***************************************************************************)
(* C16  take_last_deserializer_error removes the stored error.             *)
(***************************************************************************)
\* what take_last_deserializer_error returns on Transcoder t (NoErr for None)
TakenFrom(t) == t.de_err

\* with_transcoder! or transcode is about to call take_last_deserializer_error
Taking == Returned /\ Top.fn \in {"with", "transcode"}

\* C16: a Transcoder holds an error only after a serialize on it that ended
\* with that source error: none before any serialize (a payload the sink
\* never drove), none after a serialize that succeeded or failed on the sink
\* side; the call hands out what is stored and leaves nothing, so a further
\* call returns None.
C16_TakeRemovesStoredError ==
    /\ [](\A j \in 1..Len(trs) :
            /\ trs[j].drives = 0 => TakenFrom(trs[j]) = NoErr
            /\ TakenFrom(trs[j]) # NoErr =>
                   /\ trs[j].drives >= 1
                   /\ TakenFrom(trs[j]).dom = "De"
            /\ TakenFrom(take_last_deserializer_error(trs[j])) = NoErr)
    /\ [][\A j \in 1..Len(trs) :
            (trs'[j].de_err # trs[j].de_err /\ trs'[j].de_err # NoErr) =>
                /\ SourceFailedInDrive
                /\ Top.tr = j
                /\ trs'[j].de_err = ret.err]_vars
    /\ [][(Returned /\ Top.fn = "serialize" /\ ret.st \in {"Ok", "OkErr"}) =>
            TakenFrom(trs'[Top.tr]) = NoErr]_vars
    /\ [][Taking =>
            /\ TakenFrom(trs'[Top.tr]) = NoErr
            /\ TakenFrom(trs[Top.tr]) # NoErr =>
                   IF Top.fn = "with" THEN ret'.err = TakenFrom(trs[Top.tr])
                   ELSE result'.err = TakenFrom(trs[Top.tr])
            /\ (TakenFrom(trs[Top.tr]) = NoErr /\ Top.fn = "with") => ret'.st # "Err"
            /\ (TakenFrom(trs[Top.tr]) = NoErr /\ Top.fn = "transcode") =>
                   result'.st # "DeserializerError"]_vars

\* transcode has taken the source error of a failed drive out of its
\* Transcoder, which holds none now
C16_Witness ==
    /\ result = Res("DeserializerError", NoVal, DeErr(1))
    /\ trs[1].drives = 1
    /\ TakenFrom(trs[1]) = NoErr

(***************************************************************************)
(* C17  A failed begin call ends the composite at once.                    *)
(***************************************************************************)
\* the places in the document of the composites whose begin call failed
FailedBegins ==
    { trs[trace[l].tr].path : l \in { m \in 1..Len(trace) :
        trace[m].ev = "ret" /\ trace[m].op \in BeginOps /\ ~trace[m].ok } }

\* the visitor is about to make the begin call of a composite
Beginning == Running /\ Top.fn = "visit" /\ Top.d.k \in {"seq", "map"}

\* C17: when serialize_seq / serialize_map returns an error, the visitor
\* returns Ok(Err(that error)) in the same step; for that composite no
\* element, key or value is ever pulled, no context exists, so no append and
\* no end call is made, and no payload is constructed over one of its children.
C17_FailedBeginStopsComposite ==
    /\ [](\A P \in FailedBegins :
            /\ \A j \in 1..Len(pulls) :
                   pulls[j].path = P => pulls[j].op \in {"deserialize_any", "size_hint"}
            /\ \A s \in 1..Len(loops) : loops[s].path # P
            /\ \A j \in 1..Len(trs) :
                   ~(Len(trs[j].path) = Len(P) + 1 /\ IsPrefix(P, trs[j].path)))
    /\ [][(Beginning /\ ~trace'[Len(trace')].ok) =>
            /\ ret' = ROkErr(SerErr(Len(faults')))
            /\ faults'[Len(faults')] = "sink_error"
            /\ stack' = Popped
            /\ ctxs' = ctxs /\ trs' = trs /\ loops' = loops
            /\ Len(pulls') = Len(pulls) + 1
            /\ Len(trace') = Len(trace) + 2]_vars

\* the begin call of a non-empty keyed collection failed and transcode has
\* returned
C17_Witness ==
    /\ doc = HelloGoodbye
    /\ Finished
    /\ FailedBegins = { <<>> }
    /\ Len(trace) = 2

(***************************************************************************)
(* C18  The sink cannot mask a source failure.                             *)
(***************************************************************************)
\* the sink has turned the error of a payload's drive into success or into
\* an error of its own after a source operation had failed
MaskedAfterSourceFailure ==
    \E i, j \in 1..Len(faults) :
        /\ i < j
        /\ faults[i] \in {"source_error", "source_error_late"}
        /\ faults[j] \in {"sink_mask", "sink_replace"}

\* the sink call carrying a Transcoder whose drive failed on the source side
\* has returned something else than the error serialize gave it
MaskedReturn ==
    /\ Returned /\ Top.fn = "with"
    /\ trs[Top.tr].de_err # NoErr
    /\ ret # RErr(Custom(to_string(trs[Top.tr].de_err)))

\* the loops that were running when the source failed first
EnclosingLoops ==
    { s \in 1..Len(loops) :
        /\ failedAt # <<>>
        /\ IsPrefix(loops[s].path, failedAt[1].path)
        /\ failedAt[1].path = loops[s].path => failedAt[1].fn = "next" }

\* C18: when the sink call that carried a payload whose drive failed on the
\* source side returns Ok or another sink error, with_transcoder! returns
\* Err of the stored source error all the same; from then on no sink call
\* and no source operation is made, every enclosing loop is left by the
\* error, and transcode returns Error::DeserializerError with that error.
C18_SourceFailureNotMasked ==
    /\ [][MaskedReturn =>
            /\ ret' = RErr(trs[Top.tr].de_err)
            /\ ret'.err = srcErr
            /\ stack' = Popped]_vars
    /\ [][MaskedAfterSourceFailure => Quiet]_vars
    /\ [](MaskedAfterSourceFailure =>
            /\ \A s \in EnclosingLoops : loops[s].out # "end" /\ ~ctxs[s].closed
            /\ result.st \in {"-", "Panic", "DeserializerError"}
            /\ Finished =>
                   /\ result = Res("DeserializerError", NoVal, srcErr)
                   /\ \A s \in EnclosingLoops : loops[s].out = "fail")

\* an element failed to decode, the sink swallowed the error, and transcode
\* has returned the source's error
C18_Witness ==
    /\ doc = Seq4
    /\ faults = <<"source_error", "sink_mask">>
    /\ result = Res("DeserializerError", NoVal, DeErr(1))
    /\ loops[1].out = "fail"

(***************************************************************************)
(* C19  Termination.                                                       *)
(***************************************************************************)
\* the greatest of a set of naturals, 0 for the empty set
Max(S) == IF S = {} THEN 0 ELSE CHOOSE x \in S : \A y \in S : y <= x

\* the nesting depth of a value: 1 for a primitive
RECURSIVE Depth(_)
Depth(d) == 1 + Max({ Depth(d.c[j]) : j \in 1..Len(d.c) })

\* the activations of Transcoder::serialize on the stack
Recursion == Len(SelectSeq(stack, LAMBDA f : f.fn = "serialize"))

\* the sink has driven every payload of a call that returned once, and none twice
DrivesOnce ==
    /\ \A j \in 1..Len(trs) : trs[j].drives <= 1
    /\ \A l \in 1..Len(trace) :
           (trace[l].ev = "ret" /\ trace[l].op \in PayloadOps) => trs[trace[l].tr].drives = 1

\* C19: with a sink that drives each payload once, transcode eventually
\* returns Ok, DeserializerError or SerializerError, and what it has
\* returned stays; every child of a composite is handed out at most once,
\* a composite sees at most one pull more than it has children, and exactly
\* that when its loop reached end; the activations of Transcoder::serialize
\* never exceed the nesting depth of the value.
C19_Termination ==
    /\ <>(Finished \/ ~DrivesOnce)
    /\ [](result.st = "Panic" => ~DrivesOnce)
    /\ [][result # NoRet => result' = result]_vars
    /\ [](Finished => stack = <<>>)
    /\ [](\A s \in 1..Len(ctxs) :
            LET n == Len(SubDoc(doc, loops[s].path).c)
                ps == NextPullsFor(s)
            IN  /\ Len(ps) <= n + 1
                /\ loops[s].out = "end" => Len(ps) = n + 1
                /\ loops[s].fwd <= n)
    /\ [](Recursion <= Depth(doc) /\ Len(stack) <= 6 * Depth(doc))

\* transcode has returned Ok for a collection with nested sequences
C19_Witness ==
    /\ doc = HelloGoodbye
    /\ result.st = "Ok"
    /\ stack = <<>>
    /\ DrivesOnce
    /\ Len(NextPullsFor(1)) = 5

====
